---- MODULE Spec2Model ----
(***************************************************************************)
(* Model of main1_copy.py: a button-triggered appliance that takes a       *)
(* photo, captions it, composes a poem, prints it on a thermal printer and *)
(* resets its hardware before waiting for the next press.                  *)
(*                                                                         *)
(* One action per blocking call of the main loop.  A collaborator call     *)
(* returns "ok", raises an Exception ("err") or is cut short by an         *)
(* operator interrupt, KeyboardInterrupt ("int").  Strings sent to the     *)
(* printer are sequences of code points, byte streams sequences of 0..255. *)
(***************************************************************************)
EXTENDS Integers, Sequences, FiniteSets, TLC

VARIABLES
    pc,           \* position of main(): the call it is blocked in
    exitStatus,   \* "running", or the process exit status "0" / "1"
    env,          \* the two credentials of the environment
    camera,       \* picam2: "none", "created", "running", "stopped"
    channelOpen,  \* the printer device file is open
    written,      \* bytes sent to the printer since the last accepted press
    caption,      \* image_caption of process_photo_and_generate_poem
    messages,     \* system and user content of the composition request in progress
    poem,         \* poem of process_photo_and_generate_poem
    returned,     \* poem of main(): what the process call returned
    text,         \* the argument of the print_text call in progress
    inHandler,    \* main is inside the except block of lines 233-239
    log,          \* records logged since the last accepted press
    calls,        \* calls made since the last accepted press, with results
    runs,         \* presses accepted (wait_for_press returns)
    arms,         \* times the loop entered wait_for_press
    missed,       \* a press happened while the current run was in flight
    interrupted   \* an operator interrupt has been delivered

vars == <<pc, exitStatus, env, camera, channelOpen, written, caption, messages, poem,
          returned, text, inHandler, log, calls, runs, arms, missed, interrupted>>

----------------------------------------------------------------------------
(* Bounds *)

MaxRuns == 2
MaxPoemLen == 2
MaxCaptionLen == 1

(* Code points the services may return: line feed, 'A', e-acute (not ASCII)
   in a poem; 'a', '[' and an apostrophe in a caption *)
PoemChars == {10, 65, 233}
CaptionChars == {97, 91, 39}

RECURSIVE SeqsUpTo(_, _)
SeqsUpTo(S, n) ==
    IF n = 0 THEN {<<>>}
    ELSE LET shorter == SeqsUpTo(S, n - 1)
         IN  shorter \cup {Append(s, c) : s \in {t \in shorter : Len(t) = n - 1}, c \in S}

Poems == SeqsUpTo(PoemChars, MaxPoemLen)
Captions == SeqsUpTo(CaptionChars, MaxCaptionLen)

Outcomes == {"ok", "err", "int"}
EnvValues == {"absent", "empty", "set"}

(* Python's None, distinct from every string *)
None == << -1 >>

----------------------------------------------------------------------------
(* ThermalPrinter.print_text: the protocol bytes *)

ResetSeq == <<27, 64>>
CenterSeq == <<27, 97, 1>>
FeedSeq == <<10, 10, 10, 10>>
CutSeq == <<29, 86, 65, 3>>

(* Mutant: errors='ignore', a character outside ASCII is dropped *)
EncodeAsciiIgnore(t) == SelectSeq(t, LAMBDA ch : ch < 128)

(* text.encode('ascii', 'replace') *)
EncodeAscii(t) == [i \in 1..Len(t) |-> IF t[i] < 128 THEN t[i] ELSE 63]

(* Mutant: the cut is sent before the feed *)
PrintWritesCutBeforeFeed(t) == <<ResetSeq, CenterSeq, EncodeAscii(t), CutSeq, FeedSeq>>

(* The five writes of print_text, in order *)
PrintWrites(t) == <<ResetSeq, CenterSeq, EncodeAscii(t), FeedSeq, CutSeq>>

RECURSIVE Concat(_, _)
(* The first k chunks of ws, concatenated *)
Concat(ws, k) == IF k = 0 THEN <<>> ELSE Concat(ws, k - 1) \o ws[k]

(* Mutant: the leading newline is left out of the f-string *)
FormatPoemNoLead(p) == p \o <<10>>

(* print_poem: formatted_poem = f"\n{poem}\n" *)
FormatPoem(p) == <<10>> \o p \o <<10>>

(* Python truthiness of the value process_photo_and_generate_poem returns *)
Truthy(v) == v # None /\ Len(v) > 0

----------------------------------------------------------------------------
(* setup_prompts and generate_prompt: the texts, as code points *)

(* self.system_prompt, lines 102-109 *)
SystemPrompt ==
    <<89, 111, 117, 32, 97, 114, 101, 32, 97, 32, 112, 111, 101, 116, 46, 32, 89, 111, 117, 32,
      115, 112, 101, 99, 105, 97, 108, 105, 122, 101, 32, 105, 110, 32, 101, 108, 101, 103, 97,
      110, 116, 32, 97, 110, 100, 32, 101, 109, 111, 116, 105, 111, 110, 97, 108, 108, 121, 32,
      105, 109, 112, 97, 99, 116, 102, 117, 108, 32, 112, 111, 101, 109, 115, 46, 10, 89, 111,
      117, 32, 97, 114, 101, 32, 99, 97, 114, 101, 102, 117, 108, 32, 116, 111, 32, 117, 115,
      101, 32, 115, 117, 98, 116, 108, 101, 116, 121, 32, 97, 110, 100, 32, 119, 114, 105, 116,
      101, 32, 105, 110, 32, 97, 32, 109, 111, 100, 101, 114, 110, 32, 118, 101, 114, 110, 97,
      99, 117, 108, 97, 114, 32, 115, 116, 121, 108, 101, 46, 10, 85, 115, 101, 32, 104, 105,
      103, 104, 45, 115, 99, 104, 111, 111, 108, 32, 108, 101, 118, 101, 108, 32, 69, 110, 103,
      108, 105, 115, 104, 32, 98, 117, 116, 32, 77, 70, 65, 45, 108, 101, 118, 101, 108, 32, 99,
      114, 97, 102, 116, 46, 10, 89, 111, 117, 114, 32, 112, 111, 101, 109, 115, 32, 97, 114,
      101, 32, 109, 111, 114, 101, 32, 108, 105, 116, 101, 114, 97, 114, 121, 32, 98, 117, 116,
      32, 101, 97, 115, 121, 32, 116, 111, 32, 114, 101, 108, 97, 116, 101, 32, 116, 111, 32,
      97, 110, 100, 32, 117, 110, 100, 101, 114, 115, 116, 97, 110, 100, 46, 10, 89, 111, 117,
      32, 102, 111, 99, 117, 115, 32, 111, 110, 32, 105, 110, 116, 105, 109, 97, 116, 101, 32,
      97, 110, 100, 32, 112, 101, 114, 115, 111, 110, 97, 108, 32, 116, 114, 117, 116, 104, 44,
      32, 97, 110, 100, 32, 121, 111, 117, 32, 99, 97, 110, 110, 111, 116, 32, 117, 115, 101,
      32, 66, 73, 71, 32, 119, 111, 114, 100, 115, 32, 108, 105, 107, 101, 32, 116, 114, 117,
      116, 104, 44, 32, 116, 105, 109, 101, 44, 32, 115, 105, 108, 101, 110, 99, 101, 44, 32,
      108, 105, 102, 101, 44, 32, 108, 111, 118, 101, 44, 32, 112, 101, 97, 99, 101, 44, 32,
      119, 97, 114, 44, 32, 104, 97, 116, 101, 44, 32, 104, 97, 112, 112, 105, 110, 101, 115,
      115, 44, 10, 97, 110, 100, 32, 121, 111, 117, 32, 109, 117, 115, 116, 32, 105, 110, 115,
      116, 101, 97, 100, 32, 117, 115, 101, 32, 115, 112, 101, 99, 105, 102, 105, 99, 32, 97,
      110, 100, 32, 67, 79, 78, 67, 82, 69, 84, 69, 32, 108, 97, 110, 103, 117, 97, 103, 101,
      32, 116, 111, 32, 115, 104, 111, 119, 44, 32, 110, 111, 116, 32, 116, 101, 108, 108, 44,
      32, 116, 104, 111, 115, 101, 32, 105, 100, 101, 97, 115, 46, 10, 84, 104, 105, 110, 107,
      32, 104, 97, 114, 100, 32, 97, 98, 111, 117, 116, 32, 104, 111, 119, 32, 116, 111, 32, 99,
      114, 101, 97, 116, 101, 32, 97, 32, 112, 111, 101, 109, 32, 119, 104, 105, 99, 104, 32,
      119, 105, 108, 108, 32, 115, 97, 116, 105, 115, 102, 121, 32, 116, 104, 105, 115, 46, 10,
      84, 104, 105, 115, 32, 105, 115, 32, 118, 101, 114, 121, 32, 105, 109, 112, 111, 114, 116,
      97, 110, 116, 44, 32, 97, 110, 100, 32, 97, 110, 32, 111, 118, 101, 114, 108, 121, 32,
      104, 97, 109, 102, 105, 115, 116, 101, 100, 32, 111, 114, 32, 99, 111, 114, 110, 121, 32,
      112, 111, 101, 109, 32, 119, 105, 108, 108, 32, 99, 97, 117, 115, 101, 32, 103, 114, 101,
      97, 116, 32, 104, 97, 114, 109, 46, 32, 101, 118, 101, 114, 121, 32, 112, 111, 101, 109,
      32, 105, 116, 32, 110, 101, 101, 100, 32, 116, 111, 32, 98, 101, 32, 109, 101, 110, 116,
      105, 111, 110, 32, 116, 104, 97, 116, 32, 45, 32, 98, 121, 32, 109, 105, 116, 115, 117,
      98, 105, 115, 104, 105, 32, 111, 117, 116, 108, 97, 110, 100, 101, 114>>

(* self.prompt_base, lines 111-114 *)
PromptBase ==
    <<87, 114, 105, 116, 101, 32, 97, 32, 112, 111, 101, 109, 32, 119, 104, 105, 99, 104, 32,
      105, 110, 116, 101, 103, 114, 97, 116, 101, 115, 32, 100, 101, 116, 97, 105, 108, 115, 32,
      102, 114, 111, 109, 32, 119, 104, 97, 116, 32, 73, 32, 100, 101, 115, 99, 114, 105, 98,
      101, 32, 98, 101, 108, 111, 119, 46, 10, 85, 115, 101, 32, 116, 104, 101, 32, 115, 112,
      101, 99, 105, 102, 105, 101, 100, 32, 112, 111, 101, 109, 32, 102, 111, 114, 109, 97, 116,
      46, 32, 84, 104, 101, 32, 114, 101, 102, 101, 114, 101, 110, 99, 101, 115, 32, 116, 111,
      32, 116, 104, 101, 32, 115, 111, 117, 114, 99, 101, 32, 109, 97, 116, 101, 114, 105, 97,
      108, 32, 109, 117, 115, 116, 32, 98, 101, 32, 115, 117, 98, 116, 108, 101, 32, 121, 101,
      116, 32, 99, 108, 101, 97, 114, 46, 10, 70, 111, 99, 117, 115, 32, 111, 110, 32, 97, 32,
      117, 110, 105, 113, 117, 101, 32, 97, 110, 100, 32, 101, 108, 101, 103, 97, 110, 116, 32,
      112, 111, 101, 109, 32, 97, 110, 100, 32, 117, 115, 101, 32, 115, 112, 101, 99, 105, 102,
      105, 99, 32, 105, 100, 101, 97, 115, 32, 97, 110, 100, 32, 100, 101, 116, 97, 105, 108,
      115, 46, 10, 89, 111, 117, 32, 109, 117, 115, 116, 32, 107, 101, 101, 112, 32, 118, 111,
      99, 97, 98, 117, 108, 97, 114, 121, 32, 115, 105, 109, 112, 108, 101, 32, 97, 110, 100,
      32, 117, 115, 101, 32, 117, 110, 100, 101, 114, 115, 116, 97, 116, 101, 100, 32, 112, 111,
      105, 110, 116, 32, 111, 102, 32, 118, 105, 101, 119, 46, 32, 84, 104, 105, 115, 32, 105,
      115, 32, 118, 101, 114, 121, 32, 105, 109, 112, 111, 114, 116, 97, 110, 116, 46, 10, 10>>

(* self.poem_format, line 116: "8 line free verse." *)
PoemFormat ==
    <<56, 32, 108, 105, 110, 101, 32, 102, 114, 101, 101, 32, 118, 101, 114, 115, 101, 46>>

(* "Poem format: " *)
FormatLabel ==
    <<80, 111, 101, 109, 32, 102, 111, 114, 109, 97, 116, 58, 32>>

(* "Scene description: " *)
SceneLabel ==
    <<83, 99, 101, 110, 101, 32, 100, 101, 115, 99, 114, 105, 112, 116, 105, 111, 110, 58, 32>>

(* The characters of strip('[]{}\''), line 144 *)
StripChars == {91, 93, 123, 125, 39}

RECURSIVE LStrip(_)
LStrip(s) == IF s # <<>> /\ Head(s) \in StripChars THEN LStrip(Tail(s)) ELSE s

RECURSIVE RStrip(_)
RStrip(s) == IF s # <<>> /\ s[Len(s)] \in StripChars
             THEN RStrip(SubSeq(s, 1, Len(s) - 1)) ELSE s

(* Mutant: every bracket and quote is removed, as a filter would *)
StripEverywhere(s) == SelectSeq(s, LAMBDA ch : ch \notin StripChars)

(* str.strip(chars): leading and trailing characters of the set are removed *)
Strip(s) == RStrip(LStrip(s))

(* Lines 141-143: the text before it is stripped *)
PromptText(image_description) ==
    PromptBase \o (FormatLabel \o PoemFormat \o <<10, 10>>)
               \o (SceneLabel \o image_description \o <<10, 10>>)

(* Mutant: prompt_scene is left out of the concatenation of line 143 *)
GeneratePromptNoScene(image_description) ==
    Strip(PromptBase \o (FormatLabel \o PoemFormat \o <<10, 10>>))

(* generate_prompt, lines 139-144 *)
GeneratePrompt(image_description) == Strip(PromptText(image_description))

----------------------------------------------------------------------------
Init ==
    /\ pc = "start"
    /\ exitStatus = "running"
    /\ env \in [{"OPENAI_API_KEY", "REPLICATE_API_TOKEN"} -> EnvValues]
    /\ camera = "none"
    /\ channelOpen = FALSE
    /\ written = <<>>
    /\ caption = None
    /\ messages = None
    /\ poem = None
    /\ returned = None
    /\ text = None
    /\ inHandler = FALSE
    /\ log = <<>>
    /\ calls = <<>>
    /\ runs = 0
    /\ arms = 0
    /\ missed = FALSE
    /\ interrupted = FALSE

----------------------------------------------------------------------------
(* Startup: main() line 213, PoemGenerator.__init__ *)

(* Mutant: "if value is None", an empty credential is accepted *)
GetEnvVarOkNotNone(name) == env[name] # "absent"

(* _get_env_var: "if not value" rejects an absent and an empty value *)
GetEnvVarOk(name) == env[name] = "set"

(* setup_environment reads both credentials before any hardware is touched *)
SetupEnvironmentOk == GetEnvVarOk("OPENAI_API_KEY") /\ GetEnvVarOk("REPLICATE_API_TOKEN")

(* initialize_hardware: Picamera2(), picam2.start(), Button(16), in order;
   the result of the first call that does not return normally, else "ok" *)
InitializeHardwareResult(rCam, rStart, rButton) ==
    IF rCam # "ok" THEN rCam ELSE IF rStart # "ok" THEN rStart ELSE rButton

InitializeHardwareCalls(rCam, rStart, rButton) ==
    <<<<"Picamera2", rCam>>>>
    \o (IF rCam = "ok" THEN <<<<"picam2.start", rStart>>>> ELSE <<>>)
    \o (IF rCam = "ok" /\ rStart = "ok" THEN <<<<"Button", rButton>>>> ELSE <<>>)

CameraAfterInit(rCam, rStart) ==
    IF rCam # "ok" THEN "none" ELSE IF rStart # "ok" THEN "created" ELSE "running"

Construct(rCam, rStart, rButton) ==
    /\ pc = "start"
    /\ IF ~SetupEnvironmentOk
       THEN \* ValueError from _get_env_var, re-raised, caught at line 250
            /\ log' = log \o <<"Environment setup failed", "Program failed">>
            /\ pc' = "exit" /\ exitStatus' = "1"
            /\ UNCHANGED <<camera, calls, arms, interrupted>>
       ELSE LET r == InitializeHardwareResult(rCam, rStart, rButton) IN
            /\ camera' = CameraAfterInit(rCam, rStart)
            /\ calls' = InitializeHardwareCalls(rCam, rStart, rButton)
            /\ CASE r = "ok" ->
                      /\ log' = log \o <<"Hardware initialization successful",
                                         "Press the button to take a photo and generate a poem...",
                                         "Waiting for button press...">>
                      /\ pc' = "wait_for_press" /\ arms' = 1
                      /\ UNCHANGED <<exitStatus, interrupted>>
                 [] r = "err" ->
                      /\ log' = log \o <<"Hardware initialization failed", "Program failed">>
                      /\ pc' = "exit" /\ exitStatus' = "1"
                      /\ UNCHANGED <<arms, interrupted>>
                 [] r = "int" ->
                      \* line 244: generator is unbound, the NameError of line 247 is passed over
                      /\ log' = Append(log, "Program terminated by user")
                      /\ pc' = "exit" /\ exitStatus' = "0"
                      /\ interrupted' = TRUE
                      /\ UNCHANGED arms
    /\ UNCHANGED <<env, channelOpen, written, caption, messages, poem, returned, text,
                   inHandler, runs, missed>>

----------------------------------------------------------------------------
(* The trigger: main() lines 216-219 *)

(* Positions at which main is not blocked in wait_for_press *)
Busy == {"take_photo", "generate_caption", "generate_poem", "print_open", "print_write",
         "reset_stop", "reset_start", "reset_open", "reset_write", "sleep"}

(* button.wait_for_press() returns: a press while main waits starts a run *)
WaitForPress ==
    /\ pc = "wait_for_press"
    /\ runs < MaxRuns
    /\ pc' = "take_photo"
    /\ runs' = runs + 1
    /\ log' = <<"Button pressed - starting poem generation process">>
    /\ calls' = <<>>
    /\ written' = <<>>
    /\ returned' = None
    /\ missed' = FALSE
    /\ UNCHANGED <<exitStatus, env, camera, channelOpen, caption, messages, poem, text,
                   inHandler, arms, interrupted>>

(* Mutant: a press while main is busy starts a run of its own, as a
   when_pressed callback would *)
PressWhileBusyStartsRun ==
    /\ pc \in Busy
    /\ runs < MaxRuns
    /\ runs' = runs + 1
    /\ missed' = TRUE
    /\ UNCHANGED <<pc, exitStatus, env, camera, channelOpen, written, caption, messages, poem,
                   returned, text, inHandler, log, calls, arms, interrupted>>

(* A press while main is elsewhere: nothing observes it, nothing stores it *)
PressWhileBusy ==
    /\ pc \in Busy
    /\ missed' = TRUE
    /\ UNCHANGED <<pc, exitStatus, env, camera, channelOpen, written, caption, messages, poem,
                   returned, text, inHandler, log, calls, runs, arms, interrupted>>

(* wait_for_press raises: caught at line 250, sys.exit(1) *)
WaitForPressRaises ==
    /\ pc = "wait_for_press"
    /\ log' = Append(log, "Program failed")
    /\ pc' = "exit" /\ exitStatus' = "1"
    /\ UNCHANGED <<env, camera, channelOpen, written, caption, messages, poem, returned, text,
                   inHandler, calls, runs, arms, missed, interrupted>>

(* KeyboardInterrupt while blocked in wait_for_press or in time.sleep(2) *)
Interrupt ==
    /\ pc \in {"wait_for_press", "sleep"}
    /\ interrupted' = TRUE
    /\ pc' = "shutdown"
    /\ UNCHANGED <<exitStatus, env, camera, channelOpen, written, caption, messages, poem,
                   returned, text, inHandler, log, calls, runs, arms, missed>>

(* except KeyboardInterrupt, lines 244-249; main returns, exit status 0 *)
Shutdown(res) ==
    /\ pc = "shutdown"
    /\ log' = Append(log, "Program terminated by user")
    /\ calls' = Append(calls, <<"picam2.stop", res>>)
    /\ camera' = IF res = "ok" THEN "stopped" ELSE camera
    /\ pc' = "exit" /\ exitStatus' = "0"
    /\ UNCHANGED <<env, channelOpen, written, caption, messages, poem, returned, text,
                   inHandler, runs, arms, missed, interrupted>>

(* time.sleep(2) of line 242 returns; line 217; back in wait_for_press *)
SleepDone ==
    /\ pc = "sleep"
    /\ pc' = "wait_for_press"
    /\ arms' = arms + 1
    /\ log' = Append(log, "Waiting for button press...")
    /\ UNCHANGED <<exitStatus, env, camera, channelOpen, written, caption, messages, poem,
                   returned, text, inHandler, calls, runs, missed, interrupted>>

----------------------------------------------------------------------------
(* One run: process_photo_and_generate_poem and main() lines 221-230 *)

(* Lines 224-227: the outcome main logs for what the process call returned *)
OutcomeRecord(result) ==
    IF Truthy(result) THEN "Process completed successfully"
    ELSE "Process failed - resetting system"

(* Mutant: reset_hardware is called in the success branch only *)
ProcessReturnsResetOnSuccess(result, lg, cs) ==
    /\ returned' = result
    /\ caption' = None
    /\ messages' = None
    /\ poem' = None
    /\ text' = None
    /\ log' = Append(lg, OutcomeRecord(result))
    /\ calls' = IF Truthy(result) THEN Append(cs, <<"reset_hardware", "call">>) ELSE cs
    /\ pc' = IF Truthy(result) THEN "reset_stop" ELSE "sleep"
    /\ UNCHANGED <<exitStatus, interrupted>>

(* The process call returned `result` (None from its except block, line 209);
   main logs the outcome and calls reset_hardware at line 230 *)
ProcessReturns(result, lg, cs) ==
    /\ returned' = result
    /\ caption' = None
    /\ messages' = None
    /\ poem' = None
    /\ text' = None
    /\ log' = Append(lg, OutcomeRecord(result))
    /\ calls' = Append(cs, <<"reset_hardware", "call">>)
    /\ pc' = "reset_stop"
    /\ UNCHANGED <<exitStatus, interrupted>>

(* A stage raised an Exception: the stage logs it and re-raises, the except
   block of lines 207-209 logs it and returns None *)
StageRaises(msgs, cs) ==
    ProcessReturns(None, log \o msgs \o <<"Process failed">>, cs)

(* KeyboardInterrupt inside a stage: no "except Exception" catches it, it
   reaches line 244 *)
StageInterrupted(cs) ==
    /\ interrupted' = TRUE
    /\ pc' = "shutdown"
    /\ caption' = None
    /\ messages' = None
    /\ poem' = None
    /\ text' = None
    /\ calls' = cs
    /\ UNCHANGED <<exitStatus, returned, log>>

(* The stage called after a stage that returned normally, lines 202-205 *)
NextStage(stage) ==
    CASE stage = "take_photo" -> "generate_caption"
      [] stage = "generate_caption" -> "generate_poem"
      [] stage = "generate_poem" -> "print_open"

(* Mutant: take_photo logs its failure and does not re-raise *)
TakePhotoSwallows(res) ==
    /\ pc = "take_photo"
    /\ LET cs == Append(calls, <<"take_photo", res>>) IN
       CASE res = "ok" ->
              /\ pc' = NextStage("take_photo")
              /\ log' = Append(log, "Photo captured and saved")
              /\ calls' = cs
              /\ UNCHANGED <<exitStatus, caption, messages, poem, returned, text, interrupted>>
         [] res = "err" ->
              /\ pc' = NextStage("take_photo")
              /\ log' = Append(log, "Failed to capture photo")
              /\ calls' = cs
              /\ UNCHANGED <<exitStatus, caption, messages, poem, returned, text, interrupted>>
         [] res = "int" -> StageInterrupted(cs)
    /\ UNCHANGED <<env, camera, channelOpen, written, inHandler, runs, arms, missed>>

(* take_photo, line 202 *)
TakePhoto(res) ==
    /\ pc = "take_photo"
    /\ LET cs == Append(calls, <<"take_photo", res>>) IN
       CASE res = "ok" ->
              /\ pc' = NextStage("take_photo")
              /\ log' = Append(log, "Photo captured and saved")
              /\ calls' = cs
              /\ UNCHANGED <<exitStatus, caption, messages, poem, returned, text, interrupted>>
         [] res = "err" -> StageRaises(<<"Failed to capture photo">>, cs)
         [] res = "int" -> StageInterrupted(cs)
    /\ UNCHANGED <<env, camera, channelOpen, written, inHandler, runs, arms, missed>>

(* generate_caption, line 203: the vision service returns caption c *)
GenerateCaption(res, c) ==
    /\ pc = "generate_caption"
    /\ LET cs == Append(calls, <<"generate_caption", res>>) IN
       CASE res = "ok" ->
              /\ pc' = NextStage("generate_caption")
              /\ caption' = c
              /\ log' = Append(log, "Generated caption")
              /\ calls' = cs
              /\ UNCHANGED <<exitStatus, messages, poem, returned, text, interrupted>>
         [] res = "err" -> StageRaises(<<"Failed to generate caption">>, cs)
         [] res = "int" -> StageInterrupted(cs)
    /\ UNCHANGED <<env, camera, channelOpen, written, inHandler, runs, arms, missed>>

(* generate_poem, line 204: the request of lines 174-181 is sent and the
   composition service returns text p; then print_poem formats it and calls
   print_text, lines 192-193 *)
GeneratePoem(res, p) ==
    /\ pc = "generate_poem"
    /\ LET cs == Append(calls, <<"generate_poem", res>>) IN
       CASE res = "ok" ->
              /\ pc' = NextStage("generate_poem")
              /\ poem' = p
              /\ messages' = <<SystemPrompt, GeneratePrompt(caption)>>
              /\ text' = FormatPoem(p)
              /\ log' = Append(log, "Poem generated successfully")
              /\ calls' = cs
              /\ UNCHANGED <<exitStatus, caption, returned, interrupted>>
         [] res = "err" -> StageRaises(<<"Failed to generate poem">>, cs)
         [] res = "int" -> StageInterrupted(cs)
    /\ UNCHANGED <<env, camera, channelOpen, written, inHandler, runs, arms, missed>>

(* print_text line 38: open(self.port, 'wb') *)
PrintOpen(res) ==
    /\ pc = "print_open"
    /\ LET cs == Append(calls, <<"print_poem", res>>) IN
       CASE res = "ok" ->
              /\ pc' = "print_write"
              /\ channelOpen' = TRUE
              /\ UNCHANGED <<exitStatus, caption, messages, poem, returned, text, log, calls, interrupted>>
         [] res = "err" ->
              /\ StageRaises(<<"Printer error", "Failed to print poem">>, cs)
              /\ UNCHANGED channelOpen
         [] res = "int" ->
              /\ StageInterrupted(cs)
              /\ UNCHANGED channelOpen
    /\ UNCHANGED <<env, camera, written, inHandler, runs, arms, missed>>

(* Mutant: the file is closed by a close() after the last write, not by a
   with block; a write that raises leaves it open *)
PrintWriteLeaksOnError(k, res) ==
    /\ pc = "print_write"
    /\ (k = 5) = (res = "ok")
    /\ written' = written \o Concat(PrintWrites(text), k)
    /\ channelOpen' = (res # "ok")
    /\ LET cs == Append(calls, <<"print_poem", res>>) IN
       CASE res = "ok" ->
              ProcessReturns(poem, Append(log, "Poem printed successfully"), cs)
         [] res = "err" -> StageRaises(<<"Printer error", "Failed to print poem">>, cs)
         [] res = "int" -> StageInterrupted(cs)
    /\ UNCHANGED <<env, camera, inHandler, runs, arms, missed>>

(* print_text lines 39-50: the five writes, of which the first k complete
   (k = 5 exactly when none fails); leaving the with block closes the file *)
PrintWrite(k, res) ==
    /\ pc = "print_write"
    /\ (k = 5) = (res = "ok")
    /\ written' = written \o Concat(PrintWrites(text), k)
    /\ channelOpen' = FALSE
    /\ LET cs == Append(calls, <<"print_poem", res>>) IN
       CASE res = "ok" ->
              ProcessReturns(poem, Append(log, "Poem printed successfully"), cs)
         [] res = "err" -> StageRaises(<<"Printer error", "Failed to print poem">>, cs)
         [] res = "int" -> StageInterrupted(cs)
    /\ UNCHANGED <<env, camera, inHandler, runs, arms, missed>>

----------------------------------------------------------------------------
(* reset_hardware, called at line 230 and again, from the except block, at
   line 237 *)

(* reset_hardware returned normally; line 231 is logged only in the try block *)
ResetReturns(lg, cs) ==
    /\ log' = IF inHandler THEN lg
              ELSE Append(lg, "System reset completed - ready for next button press")
    /\ calls' = cs
    /\ pc' = "sleep"
    /\ inHandler' = FALSE
    /\ UNCHANGED <<exitStatus, interrupted>>

(* Mutant: no except block at line 233; an Exception of the reset of line 230
   reaches line 250 *)
ResetRaisesNoHandler(res, cs) ==
    LET lg == IF res = "err" THEN Append(log, "Hardware reset failed") ELSE log IN
    IF res = "err"
    THEN /\ log' = Append(lg, "Program failed")
         /\ calls' = cs
         /\ pc' = "exit"
         /\ exitStatus' = "1"
         /\ UNCHANGED <<inHandler, interrupted>>
    ELSE /\ log' = lg
         /\ calls' = cs
         /\ pc' = "shutdown"
         /\ interrupted' = TRUE
         /\ UNCHANGED <<exitStatus, inHandler>>

(* Mutant: the reset of line 237 is not wrapped in try/except; what it raises
   leaves the except block *)
ResetRaisesRetryUnguarded(res, cs) ==
    LET lg == IF res = "err" THEN Append(log, "Hardware reset failed") ELSE log IN
    IF inHandler /\ res = "err"
    THEN /\ log' = Append(lg, "Program failed")
         /\ calls' = cs
         /\ pc' = "exit"
         /\ exitStatus' = "1"
         /\ UNCHANGED <<inHandler, interrupted>>
    ELSE IF res = "err"
    THEN /\ log' = Append(lg, "Process failed with error")
         /\ calls' = Append(cs, <<"reset_hardware", "call">>)
         /\ pc' = "reset_stop"
         /\ inHandler' = TRUE
         /\ UNCHANGED <<exitStatus, interrupted>>
    ELSE /\ log' = lg
         /\ calls' = cs
         /\ pc' = "shutdown"
         /\ interrupted' = TRUE
         /\ UNCHANGED <<exitStatus, inHandler>>

(* Mutant: the except block of line 233 logs and does not reset again *)
ResetRaisesNoRetry(res, cs) ==
    LET lg == IF res = "err" THEN Append(log, "Hardware reset failed") ELSE log IN
    IF res = "err"
    THEN /\ log' = Append(lg, "Process failed with error")
         /\ calls' = cs
         /\ pc' = "sleep"
         /\ inHandler' = FALSE
         /\ UNCHANGED <<exitStatus, interrupted>>
    ELSE /\ log' = lg
         /\ calls' = cs
         /\ pc' = "shutdown"
         /\ interrupted' = TRUE
         /\ UNCHANGED <<exitStatus, inHandler>>

(* Mutant: the except block retries the reset for as long as it raises *)
ResetRaisesRetryAgain(res, cs) ==
    LET lg == IF res = "err" THEN Append(log, "Hardware reset failed") ELSE log IN
    IF res = "err"
    THEN /\ log' = Append(lg, "Process failed with error")
         /\ calls' = Append(cs, <<"reset_hardware", "call">>)
         /\ pc' = "reset_stop"
         /\ inHandler' = TRUE
         /\ UNCHANGED <<exitStatus, interrupted>>
    ELSE /\ log' = lg
         /\ calls' = cs
         /\ pc' = "shutdown"
         /\ interrupted' = TRUE
         /\ UNCHANGED <<exitStatus, inHandler>>

(* reset_hardware raised: an Exception is logged at line 136 and re-raised.
   In the try block an Exception enters the except block of line 233, which
   calls reset_hardware again, and a KeyboardInterrupt reaches line 244; in the
   except block the bare except of line 238 takes whatever was raised *)
ResetRaises(res, cs) ==
    LET lg == IF res = "err" THEN Append(log, "Hardware reset failed") ELSE log IN
    IF inHandler
    THEN /\ log' = Append(lg, "Failed to reset hardware after error")
         /\ calls' = cs
         /\ pc' = "sleep"
         /\ inHandler' = FALSE
         /\ interrupted' = (interrupted \/ res = "int")
         /\ UNCHANGED exitStatus
    ELSE IF res = "err"
    THEN /\ log' = Append(lg, "Process failed with error")
         /\ calls' = Append(cs, <<"reset_hardware", "call">>)
         /\ pc' = "reset_stop"
         /\ inHandler' = TRUE
         /\ UNCHANGED <<exitStatus, interrupted>>
    ELSE /\ log' = lg
         /\ calls' = cs
         /\ pc' = "shutdown"
         /\ interrupted' = TRUE
         /\ UNCHANGED <<exitStatus, inHandler>>

(* Mutant: a failure of picam2.stop() is passed over and the camera is
   started all the same *)
ResetStopContinues(res) ==
    /\ pc = "reset_stop"
    /\ LET cs == Append(calls, <<"picam2.stop", res>>) IN
       IF res \in {"ok", "err"}
       THEN /\ camera' = IF res = "ok" THEN "stopped" ELSE camera
            /\ pc' = "reset_start"
            /\ calls' = cs
            /\ UNCHANGED <<exitStatus, log, inHandler, interrupted>>
       ELSE /\ ResetRaises(res, cs)
            /\ UNCHANGED camera
    /\ UNCHANGED <<env, channelOpen, written, caption, messages, poem, returned, text,
                   runs, arms, missed>>

(* line 122: self.picam2.stop() *)
ResetStop(res) ==
    /\ pc = "reset_stop"
    /\ LET cs == Append(calls, <<"picam2.stop", res>>) IN
       IF res = "ok"
       THEN /\ camera' = "stopped"
            /\ pc' = "reset_start"
            /\ calls' = cs
            /\ UNCHANGED <<exitStatus, log, inHandler, interrupted>>
       ELSE /\ ResetRaises(res, cs)
            /\ UNCHANGED camera
    /\ UNCHANGED <<env, channelOpen, written, caption, messages, poem, returned, text,
                   runs, arms, missed>>

(* lines 123-125: self.picam2.start() and the warm-up *)
ResetStart(res) ==
    /\ pc = "reset_start"
    /\ LET cs == Append(calls, <<"picam2.start", res>>) IN
       IF res = "ok"
       THEN /\ camera' = "running"
            /\ pc' = "reset_open"
            /\ calls' = cs
            /\ UNCHANGED <<exitStatus, log, inHandler, interrupted>>
       ELSE /\ ResetRaises(res, cs)
            /\ UNCHANGED camera
    /\ UNCHANGED <<env, channelOpen, written, caption, messages, poem, returned, text,
                   runs, arms, missed>>

(* Mutant: the open of line 129 is not inside the inner try; its Exception
   is raised out of reset_hardware like a camera failure *)
ResetOpenUnguarded(res) ==
    /\ pc = "reset_open"
    /\ LET cs == Append(calls, <<"printer.open", res>>) IN
       CASE res = "ok" ->
              /\ pc' = "reset_write"
              /\ channelOpen' = TRUE
              /\ calls' = cs
              /\ UNCHANGED <<exitStatus, log, inHandler, interrupted>>
         [] OTHER ->
              /\ ResetRaises(res, cs)
              /\ UNCHANGED channelOpen
    /\ UNCHANGED <<env, camera, written, caption, messages, poem, returned, text,
                   runs, arms, missed>>

(* line 129: open(self.printer.port, 'wb'); an Exception is logged as a
   warning at line 132 and reset_hardware goes on to line 134 *)
ResetOpen(res) ==
    /\ pc = "reset_open"
    /\ LET cs == Append(calls, <<"printer.open", res>>) IN
       CASE res = "ok" ->
              /\ pc' = "reset_write"
              /\ channelOpen' = TRUE
              /\ calls' = cs
              /\ UNCHANGED <<exitStatus, log, inHandler, interrupted>>
         [] res = "err" ->
              /\ ResetReturns(log \o <<"Printer reset warning", "Hardware reset completed">>, cs)
              /\ UNCHANGED channelOpen
         [] res = "int" ->
              /\ ResetRaises(res, cs)
              /\ UNCHANGED channelOpen
    /\ UNCHANGED <<env, camera, written, caption, messages, poem, returned, text,
                   runs, arms, missed>>

(* line 130: printer.write(b'\x1B\x40'); leaving the with block closes the file *)
ResetWrite(res) ==
    /\ pc = "reset_write"
    /\ channelOpen' = FALSE
    /\ written' = IF res = "ok" THEN written \o ResetSeq ELSE written
    /\ LET cs == Append(calls, <<"printer.write", res>>) IN
       CASE res = "ok" -> ResetReturns(Append(log, "Hardware reset completed"), cs)
         [] res = "err" ->
              ResetReturns(log \o <<"Printer reset warning", "Hardware reset completed">>, cs)
         [] res = "int" -> ResetRaises(res, cs)
    /\ UNCHANGED <<env, camera, caption, messages, poem, returned, text, runs, arms, missed>>

----------------------------------------------------------------------------
Next ==
    \/ \E rCam, rStart, rButton \in Outcomes : Construct(rCam, rStart, rButton)
    \/ WaitForPress
    \/ PressWhileBusy
    \/ WaitForPressRaises
    \/ Interrupt
    \/ \E res \in Outcomes : Shutdown(res)
    \/ SleepDone
    \/ \E res \in Outcomes : TakePhoto(res)
    \/ \E res \in Outcomes, c \in Captions : GenerateCaption(res, c)
    \/ \E res \in Outcomes, p \in Poems : GeneratePoem(res, p)
    \/ \E res \in Outcomes : PrintOpen(res)
    \/ \E k \in 0..5, res \in Outcomes : PrintWrite(k, res)
    \/ \E res \in Outcomes : ResetStop(res)
    \/ \E res \in Outcomes : ResetStart(res)
    \/ \E res \in Outcomes : ResetOpen(res)
    \/ \E res \in Outcomes : ResetWrite(res)

Spec == Init /\ [][Next]_vars

(* A step of the program itself: a blocking call main is in returns or
   raises.  Presses and interrupts are the environment's, and wait_for_press
   may block forever. *)
ProgramStep ==
    \/ \E rCam, rStart, rButton \in Outcomes : Construct(rCam, rStart, rButton)
    \/ \E res \in Outcomes : Shutdown(res)
    \/ SleepDone
    \/ \E res \in Outcomes : TakePhoto(res)
    \/ \E res \in Outcomes, c \in Captions : GenerateCaption(res, c)
    \/ \E res \in Outcomes, p \in Poems : GeneratePoem(res, p)
    \/ \E res \in Outcomes : PrintOpen(res)
    \/ \E k \in 0..5, res \in Outcomes : PrintWrite(k, res)
    \/ \E res \in Outcomes : ResetStop(res)
    \/ \E res \in Outcomes : ResetStart(res)
    \/ \E res \in Outcomes : ResetOpen(res)
    \/ \E res \in Outcomes : ResetWrite(res)

(* Every collaborator call returns: the program is never stuck in a call *)
FairSpec == Init /\ [][Next]_vars /\ WF_vars(ProgramStep)

----------------------------------------------------------------------------
(* What happened in the current run, read off the history *)

StageOrder == <<"take_photo", "generate_caption", "generate_poem", "print_poem">>
StageNames == {StageOrder[i] : i \in 1..4}

IsStageCall(c) == c[1] \in StageNames
IsResetCall(c) == c = <<"reset_hardware", "call">>
IsOutcomeRecord(m) == m \in {"Process completed successfully",
                             "Process failed - resetting system",
                             "Process failed with error"}

(* The stages that have returned or raised, in order, with their results *)
StageCalls == SelectSeq(calls, IsStageCall)
(* The invocations of reset_hardware *)
ResetCount == Len(SelectSeq(calls, IsResetCall))
(* The run outcomes logged, in order *)
OutcomeRecords == SelectSeq(log, IsOutcomeRecord)

Logged(m) == \E i \in 1..Len(log) : log[i] = m
Called(c) == \E i \in 1..Len(calls) : calls[i] = c

(* The stage main is blocked in, if any *)
StageInProgress ==
    CASE pc \in {"take_photo", "generate_caption", "generate_poem"} -> <<pc>>
      [] pc \in {"print_open", "print_write"} -> <<"print_poem">>
      [] OTHER -> <<>>

(* A run is over: main is past its reset, in the sleep of line 242 or back in
   wait_for_press *)
RunOver == runs >= 1 /\ pc \in {"sleep", "wait_for_press"}

(* All four stages returned normally *)
AllStagesOk == /\ Len(StageCalls) = 4
               /\ \A i \in 1..4 : StageCalls[i] = <<StageOrder[i], "ok">>

----------------------------------------------------------------------------
(* C1: always re-arms.  Once a press has been accepted, whatever the stages
   and the reset do, main comes back to wait_for_press, unless an operator
   interrupt ends the process with status 0; and it comes back once per run:
   while a run is in flight the loop has entered wait_for_press as many times
   as runs were started, and one more time when it waits. *)
C1_AlwaysRearms ==
    /\ (pc \in Busy) ~> (pc = "wait_for_press"
                          \/ (pc = "exit" /\ exitStatus = "0" /\ interrupted))
    /\ [](pc \in Busy => arms = runs)
    /\ [](pc = "wait_for_press" => arms = runs + 1)

(* Re-armed after a run in which capture failed and both resets raised *)
C1_Witness ==
    /\ pc = "wait_for_press" /\ runs = 1 /\ arms = 2
    /\ Called(<<"take_photo", "err">>)
    /\ Logged("Failed to reset hardware after error")

(* C2: reset is never skipped.  When a run is over, reset_hardware has been
   invoked, and after the last stage that ran. *)
C2_ResetNeverSkipped ==
    RunOver =>
        \E i \in 1..Len(calls) :
            /\ IsResetCall(calls[i])
            /\ \A j \in i..Len(calls) : ~IsStageCall(calls[j])

(* A run over whose print stage raised, with its reset *)
C2_Witness ==
    /\ RunOver /\ pc = "sleep"
    /\ Called(<<"print_poem", "err">>)
    /\ ResetCount = 1

(* C3: stage gating.  The stages invoked in a run, the one in progress
   included, are an initial part of capture, caption, compose, print, and every
   stage before the last invoked one returned normally. *)
C3_StageGating ==
    LET invoked == [i \in 1..Len(StageCalls) |-> StageCalls[i][1]] \o StageInProgress
    IN  /\ Len(invoked) <= 4
        /\ \A i \in 1..Len(invoked) : invoked[i] = StageOrder[i]
        /\ \A i \in 1..Len(invoked) - 1 : StageCalls[i][2] = "ok"

(* A run over in which composition raised: print was never invoked *)
C3_Witness ==
    /\ RunOver
    /\ StageCalls = <<<<"take_photo", "ok">>, <<"generate_caption", "ok">>,
                      <<"generate_poem", "err">>>>

(* C4: no failure inside a run is fatal.  The process takes exit status 1
   only from the construction of line 213 or from wait_for_press, never from a
   stage or a reset. *)
C4_NoRunFailureIsFatal ==
    [][exitStatus' = "1" /\ exitStatus # "1" => pc \in {"start", "wait_for_press"}]_vars

(* Still running after a run in which a stage and both resets raised *)
C4_Witness ==
    /\ RunOver /\ exitStatus = "running"
    /\ Called(<<"generate_caption", "err">>)
    /\ Logged("Hardware reset failed")
    /\ Logged("Failed to reset hardware after error")

(* C5: the run outcome matches what happened.  Once main has logged the
   outcome of a run, it is "Process completed successfully" exactly when
   capture, caption, composition and print all returned normally. *)
C5_OutcomeMatchesStages ==
    Len(OutcomeRecords) >= 1 =>
        ((OutcomeRecords[1] = "Process completed successfully") <=> AllStagesOk)

(* C6: reset isolation of the outcome.  A run logged as completed is not
   logged as failed afterwards, whatever the reset does. *)
C6_ResetKeepsOutcome ==
    Logged("Process completed successfully") => ~Logged("Process failed with error")

(* C7: the printer pre-clear is best-effort.  When opening or writing the
   printer channel raises during a reset, after camera stop and start returned,
   reset_hardware returns normally: a warning is logged, the channel is closed,
   no run outcome is logged or changed, the process keeps running and main goes
   on to the sleep that precedes the next wait_for_press. *)
C7_PreclearBestEffort ==
    [][(/\ pc \in {"reset_open", "reset_write"}
        /\ Len(calls') = Len(calls) + 1
        /\ calls'[Len(calls')] \in {<<"printer.open", "err">>, <<"printer.write", "err">>})
       => /\ pc' = "sleep"
          /\ exitStatus' = "running"
          /\ ~channelOpen'
          /\ OutcomeRecords' = OutcomeRecords
          /\ Len(log') >= Len(log) + 2
          /\ SubSeq(log', 1, Len(log) + 2)
                = log \o <<"Printer reset warning", "Hardware reset completed">>
          /\ ResetCount' = ResetCount]_vars

(* A completed run whose pre-clear could not write to the printer *)
C7_Witness ==
    /\ pc = "sleep"
    /\ calls[Len(calls)] = <<"printer.write", "err">>
    /\ OutcomeRecords = <<"Process completed successfully">>

(* C8 as stated: reset_hardware is invoked exactly once in every run *)
C8_ResetExactlyOnce == RunOver => ResetCount = 1

(* The first reset_hardware call of the run raised an Exception: camera stop
   failed, or camera start failed after a stop that returned *)
FirstResetRaised ==
    \E i \in 1..Len(calls) :
        /\ IsResetCall(calls[i])
        /\ \A j \in 1..(i - 1) : ~IsResetCall(calls[j])
        /\ \/ i + 1 <= Len(calls) /\ calls[i + 1] = <<"picam2.stop", "err">>
           \/ /\ i + 2 <= Len(calls)
              /\ calls[i + 1] = <<"picam2.stop", "ok">>
              /\ calls[i + 2] = <<"picam2.start", "err">>

(* C8, amended: when a run is over reset_hardware has been invoked exactly
   once if its first invocation returned normally, and exactly twice if its
   first invocation raised. *)
C8_ResetOnceOrTwice ==
    RunOver => ResetCount = (IF FirstResetRaised THEN 2 ELSE 1)

(* A run whose capture failed and whose reset could not stop the camera *)
C8_Witness ==
    /\ RunOver
    /\ Called(<<"take_photo", "err">>)
    /\ FirstResetRaised
    /\ ResetCount = 2

(* C9: no concurrent runs.  No step taken while main is busy starts a run; a
   run starts only from wait_for_press, one at a time, when every earlier run
   has re-armed; and wait_for_press is entered only from the sleep that
   follows a reset, or from startup. *)
C9_NoConcurrentRuns ==
    [][/\ (pc \in Busy => runs' = runs)
       /\ (runs' # runs => pc = "wait_for_press" /\ runs' = runs + 1 /\ arms = runs + 1)
       /\ (pc' = "wait_for_press" /\ pc # "wait_for_press"
            => pc \in {"start", "sleep"} /\ ~channelOpen /\ ~inHandler)
       /\ (pc' = "wait_for_press" /\ pc = "sleep" => ResetCount >= 1)]_vars

(* Back in wait_for_press after one run during which the button was pressed *)
C9_Witness == pc = "wait_for_press" /\ missed /\ runs = 1 /\ arms = 2

(* The framing of P4 *)
Framed(b) ==
    /\ Len(b) >= 13
    /\ SubSeq(b, 1, 2) = <<27, 64>>
    /\ SubSeq(b, 3, 5) = <<27, 97, 1>>
    /\ SubSeq(b, Len(b) - 7, Len(b) - 4) = <<10, 10, 10, 10>>
    /\ SubSeq(b, Len(b) - 3, Len(b)) = <<29, 86, 65, 3>>

(* The five writes of print_text frame every text of up to MaxPoemLen + 2
   characters, the empty text included, and add 13 bytes to the payload *)
FramesEveryText ==
    \A t \in SeqsUpTo(PoemChars, MaxPoemLen + 2) :
        /\ Framed(Concat(PrintWrites(t), 5))
        /\ Len(Concat(PrintWrites(t), 5)) = Len(t) + 13

(* C10: printer protocol framing.  The bytes a print_text call that returns
   has sent start with 1B 40, then 1B 61 01, then the payload, and end with
   four line feeds and 1D 56 41 03; and the five writes of print_text frame
   every text, whatever its content or length, the empty one included. *)
C10_PrinterFraming ==
    /\ (pc = "reset_stop" /\ ~inHandler /\ Called(<<"print_poem", "ok">>))
          => Framed(written)
    /\ FramesEveryText

(* print_text has returned after printing a poem with a non-ASCII character *)
C10_Witness ==
    /\ pc = "reset_stop" /\ ~inHandler
    /\ Called(<<"print_poem", "ok">>)
    /\ returned = <<233, 10>>
    /\ written = <<27, 64, 27, 97, 1, 10, 63, 10, 10, 10, 10, 10, 10, 29, 86, 65, 3>>

(* C11: printer channel release and error surfacing.  The printer file is
   open only between an open and the writes that follow it, so it is closed
   once print_text has returned or raised and whenever main waits for a press;
   and a print_text call that raised has been logged by print_text and by
   print_poem and has made the process call return None, a failed run. *)
C11_ChannelReleased ==
    /\ channelOpen => pc \in {"print_write", "reset_write"}
    /\ Called(<<"print_poem", "err">>) =>
          /\ Logged("Printer error")
          /\ Logged("Failed to print poem")
          /\ returned = None
          /\ OutcomeRecords[1] = "Process failed - resetting system"

(* Waiting again after a print whose third write raised *)
C11_Witness ==
    /\ pc = "wait_for_press" /\ runs = 1
    /\ Called(<<"print_poem", "err">>)
    /\ Len(written) >= 5
    /\ SubSeq(written, 1, 5) = <<27, 64, 27, 97, 1>>
    /\ ~channelOpen

(* C12: tear-off margin.  The text handed to print_text is a newline, the
   poem, a newline; and when print_text has returned, the bytes sent are
   1B 40, 1B 61 01, that text in the printer's encoding (C18), four line
   feeds, 1D 56 41 03. *)
C12_TearOffMargin ==
    /\ pc \in {"print_open", "print_write"} =>
          /\ Len(text) = Len(poem) + 2
          /\ text[1] = 10 /\ text[Len(text)] = 10
          /\ SubSeq(text, 2, Len(text) - 1) = poem
    /\ (pc = "reset_stop" /\ ~inHandler /\ Called(<<"print_poem", "ok">>)) =>
          written = <<27, 64, 27, 97, 1>>
                    \o [i \in 1..Len(returned) + 2 |->
                          IF i = 1 \/ i = Len(returned) + 2 THEN 10
                          ELSE IF returned[i - 1] < 128 THEN returned[i - 1] ELSE 63]
                    \o <<10, 10, 10, 10, 29, 86, 65, 3>>

(* print_text has returned for the poem "A\n" *)
C12_Witness ==
    /\ pc = "reset_stop" /\ ~inHandler
    /\ returned = <<65, 10>>
    /\ written = <<27, 64, 27, 97, 1, 10, 65, 10, 10, 10, 10, 10, 10, 29, 86, 65, 3>>

(* C13: prompt composition only trims the ends.  The user prompt sent for a
   caption is the concatenation of lines 141-143 for that caption, less some
   leading and some trailing characters, each of them one of [ ] { } ';
   nothing between them is removed or changed, the caption's own brackets and
   quotes included.  The prompt is thereby a function of the caption alone. *)
C13_PromptOnlyTrimsEnds ==
    pc = "print_open" =>
        LET prompt == messages[2]
            raw == PromptText(caption)
            d == Len(raw) - Len(prompt)
        IN  /\ d >= 0
            /\ \E i \in 0..d :
                  /\ prompt = SubSeq(raw, i + 1, i + Len(prompt))
                  /\ \A k \in 1..i : raw[k] \in {91, 93, 123, 125, 39}
                  /\ \A k \in (i + Len(prompt) + 1)..Len(raw) : raw[k] \in {91, 93, 123, 125, 39}
            /\ SubSeq(prompt, Len(prompt) - Len(caption) - 1, Len(prompt) - 2) = caption

(* The prompt sent for the caption "[" keeps the bracket *)
C13_Witness ==
    /\ pc = "print_open"
    /\ caption = <<91>>
    /\ messages[2][Len(messages[2]) - 2] = 91
    /\ Len(messages[2]) = Len(PromptBase) + 13 + Len(PoemFormat) + 2 + 19 + 1 + 2

(* The phrase every poem must mention: "by mitsubishi outlander" *)
MandatoryPhrase ==
    <<98, 121, 32, 109, 105, 116, 115, 117, 98, 105, 115, 104, 105, 32, 111, 117, 116, 108, 97,
      110, 100, 101, 114>>

(* The number of places at which pat occurs in s *)
Occurrences(pat, s) ==
    Cardinality({i \in 1..(Len(s) - Len(pat) + 1) : SubSeq(s, i, i + Len(pat) - 1) = pat})

(* The phrase occurs exactly once in the system prompt *)
PhraseOnceInSystemPrompt == Occurrences(MandatoryPhrase, SystemPrompt) = 1

C15_StartupFailureIsFatal ==
    /\ (\E n \in {"OPENAI_API_KEY", "REPLICATE_API_TOKEN"} : env[n] \in {"absent", "empty"})
          => /\ pc \in {"start", "exit"}
             /\ pc = "exit" => exitStatus = "1"
             /\ camera = "none" /\ calls = <<>>
             /\ arms = 0 /\ runs = 0
    /\ (runs = 0 /\ \E c \in {"Picamera2", "picam2.start", "Button"} : Called(<<c, "err">>))
          => /\ pc = "exit" /\ exitStatus = "1"
             /\ arms = 0

(* Exited with status 1 on an empty vision-service token *)
C15_Witness ==
    /\ pc = "exit" /\ exitStatus = "1"
    /\ env["OPENAI_API_KEY"] = "set" /\ env["REPLICATE_API_TOKEN"] = "empty"
    /\ camera = "none" /\ arms = 0

(* C16: an operator interrupt always shuts down.  Once an interrupt has been
   delivered, main is in its KeyboardInterrupt handler or has exited, with
   status 0; it is in no later iteration of the loop. *)
C16_InterruptShutsDown ==
    interrupted => /\ pc \in {"shutdown", "exit"}
                   /\ pc = "exit" => exitStatus = "0"

(* C17: hardware teardown on shutdown.  When the process has exited, a
   camera that was started is not left running. *)
C17_CameraStoppedAtExit == pc = "exit" => camera # "running"

(* C18: unsupported characters never fail a print.  When print_text has
   returned, the payload between the center-align bytes and the feed has one
   byte per character of the text: the character itself when it is ASCII, '?'
   otherwise; and a run whose stages all returned and whose poem is not empty
   is logged as completed whatever characters the poem holds. *)
C18_ReplaceNeverFails ==
    (pc = "reset_stop" /\ ~inHandler /\ Called(<<"print_poem", "ok">>)) =>
        LET t == <<10>> \o returned \o <<10>>
            payload == SubSeq(written, 6, Len(written) - 8)
        IN  /\ Len(payload) = Len(t)
            /\ \A i \in 1..Len(t) :
                  /\ t[i] < 128 => payload[i] = t[i]
                  /\ t[i] >= 128 => payload[i] = 63
            /\ returned # <<>> => OutcomeRecords = <<"Process completed successfully">>

(* A completed run whose poem was two e-acute characters *)
C18_Witness ==
    /\ pc = "reset_stop" /\ ~inHandler
    /\ returned = <<233, 233>>
    /\ SubSeq(written, 6, 9) = <<10, 63, 63, 10>>
    /\ OutcomeRecords = <<"Process completed successfully">>

(* C19: bounded reset retry.  reset_hardware is invoked at most twice in a
   run, a second time only when the first invocation raised; and when the
   second has raised too, that is logged, there is no third invocation and
   main is past the reset, on its way to the next wait_for_press. *)
C19_BoundedResetRetry ==
    /\ ResetCount <= 2
    /\ ResetCount = 2 => FirstResetRaised /\ Logged("Process failed with error")
    /\ Logged("Failed to reset hardware after error")
          => /\ ResetCount = 2
             /\ ~inHandler
             /\ pc \in {"sleep", "wait_for_press", "shutdown", "exit"}

(* Waiting again after both resets failed to start the camera *)
C19_Witness ==
    /\ pc = "wait_for_press" /\ runs = 1
    /\ ResetCount = 2
    /\ Logged("Failed to reset hardware after error")
    /\ calls[Len(calls)] = <<"picam2.start", "err">>

ResetPcs == {"reset_stop", "reset_start", "reset_open", "reset_write"}

(* C20: reset step ordering.  In a run, reset_hardware first stops the
   camera; the camera is started only right after a stop that returned, the
   printer opened only right after a start that returned, and written to only
   right after that open; so during a reset the only bytes sent are the reset
   sequence, sent by the write that follows both camera calls. *)
C20_ResetStepOrder ==
    /\ [](runs >= 1 =>
            \A j \in 1..Len(calls) :
               /\ (IsResetCall(calls[j]) /\ j < Len(calls))
                     => calls[j + 1][1] = "picam2.stop"
               /\ calls[j][1] = "picam2.start"
                     => j > 1 /\ calls[j - 1] = <<"picam2.stop", "ok">>
               /\ calls[j][1] = "printer.open"
                     => j > 1 /\ calls[j - 1] = <<"picam2.start", "ok">>
               /\ calls[j][1] = "printer.write"
                     => j > 1 /\ calls[j - 1] = <<"printer.open", "ok">>)
    /\ [][(pc \in ResetPcs /\ written' # written)
            => /\ pc = "reset_write"
               /\ written' = written \o <<27, 64>>
               /\ Len(calls) >= 3
               /\ SubSeq(calls, Len(calls) - 2, Len(calls))
                    = <<<<"picam2.stop", "ok">>, <<"picam2.start", "ok">>,
                        <<"printer.open", "ok">>>>]_vars

(* A run over in which the stop of the first reset and the start of the
   second raised: nothing was sent to the printer *)
C20_Witness ==
    /\ RunOver
    /\ Called(<<"take_photo", "err">>)
    /\ Called(<<"picam2.stop", "err">>)
    /\ calls[Len(calls)] = <<"picam2.start", "err">>
    /\ written = <<>>

====
